---- MODULE Spec2Model ----
(***************************************************************************)
(* CompressedStorage of compress/src/lib.rs: an append buffer of u32       *)
(* values, compressed 128 at a time into a byte region, with a binary      *)
(* search over the blocks' first values for lookup.                        *)
(*                                                                         *)
(* A u32 is the pair <<hi, lo>> of its 16-bit halves, so that the whole    *)
(* 32-bit range, 4294967295 = <<65535, 65535>> included, is represented    *)
(* exactly.  A usize is kept by its signed representative modulo 2^64:     *)
(* -1 stands for usize::MAX, the value 0 - 1 wraps to.                     *)
(***************************************************************************)
EXTENDS Integers, Sequences, FiniteSets, TLC

\* const BLOCK_SIZE: usize = 128
BLOCK_SIZE == 128

\* BitPacker4x::BLOCK_LEN, the codec's batch size
BLOCK_LEN == 128

---------------------------------------------------------------------------
(* u32 arithmetic on <<hi, lo>> pairs *)

Limb == 2^16

U32_MAX == <<Limb - 1, Limb - 1>>

U32_ZERO == <<0, 0>>

\* a < b on u32
u32_lt(a, b) == a[1] < b[1] \/ (a[1] = b[1] /\ a[2] < b[2])

\* a + k for a small natural k, as the pair <<carry out of 32 bits, wrapped sum>>
u32_add(a, k) ==
  LET lo == a[2] + k
      hi == a[1] + (lo \div Limb)
  IN  <<hi \div Limb, <<hi % Limb, lo % Limb>>>>

\* a - b modulo 2^32
u32_wrapping_sub(a, b) ==
  LET lo == a[2] - b[2]
      hi == a[1] - b[1] - (IF lo < 0 THEN 1 ELSE 0)
  IN  <<hi % Limb, lo % Limb>>

\* a + b modulo 2^32
u32_wrapping_add(a, b) ==
  LET lo == a[2] + b[2]
      hi == a[1] + b[1] + (lo \div Limb)
  IN  <<hi % Limb, lo % Limb>>

\* the number of bits of a natural below 2^16
RECURSIVE bit_length(_)
bit_length(n) == IF n = 0 THEN 0 ELSE 1 + bit_length(n \div 2)

\* the number of significant bits of a u32
u32_bits(a) == IF a[1] > 0 THEN 16 + bit_length(a[1]) ELSE bit_length(a[2])

---------------------------------------------------------------------------
(* The block codec (section 4.1): every value is stored as value - base   *)
(* in `bits` bits, tightly packed, least significant bit first.           *)

\* BitPacker::num_bits_sorted: the smallest width every values[i] - initial fits in
num_bits_sorted(initial, values) ==
  LET widths == {u32_bits(u32_wrapping_sub(values[i], initial)) : i \in 1..Len(values)}
  IN  CHOOSE b \in widths : \A w \in widths : w <= b

\* bit t of the packed stream of the deltas of values, each `bits` wide
packed_bit(initial, values, bits, t) ==
  LET d == u32_wrapping_sub(values[(t \div bits) + 1], initial)
      b == t % bits
  IN  IF b < 16 THEN (d[2] \div 2^b) % 2 ELSE (d[1] \div 2^(b - 16)) % 2

\* BitPacker::compress_sorted: the BLOCK_LEN * bits / 8 bytes written
compress_sorted(initial, values, bits) ==
  [j \in 1..((BLOCK_LEN * bits) \div 8) |->
     LET t == 8 * (j - 1)
     IN    packed_bit(initial, values, bits, t)
         + 2 * packed_bit(initial, values, bits, t + 1)
         + 4 * packed_bit(initial, values, bits, t + 2)
         + 8 * packed_bit(initial, values, bits, t + 3)
         + 16 * packed_bit(initial, values, bits, t + 4)
         + 32 * packed_bit(initial, values, bits, t + 5)
         + 64 * packed_bit(initial, values, bits, t + 6)
         + 128 * packed_bit(initial, values, bits, t + 7)]

\* the n <= 16 bits of the byte sequence that start at bit offset off
read_bits(bytes, off, n) ==
  IF n = 0 THEN 0
  ELSE LET j == (off \div 8) + 1
           byte(k) == IF k <= Len(bytes) THEN bytes[k] ELSE 0
           w == byte(j) + 256 * byte(j + 1) + 65536 * byte(j + 2)
       IN  (w \div 2^(off % 8)) % 2^n

\* BitPacker::decompress_sorted: the BLOCK_LEN values read back
decompress_sorted(initial, bytes, bits) ==
  [i \in 1..BLOCK_LEN |->
     LET off == (i - 1) * bits
         lo == read_bits(bytes, off, IF bits < 16 THEN bits ELSE 16)
         hi == IF bits > 16 THEN read_bits(bytes, off + 16, bits - 16) ELSE 0
     IN  u32_wrapping_add(initial, <<hi, lo>>)]

---------------------------------------------------------------------------
(* Results.  A panic ends the run of the program. *)

Some(x) == <<"Some", x>>

None == <<"None">>

Panic(msg) == <<"Panic", msg>>

Unit == <<"Unit">>

IsPanic(r) == r[1] = "Panic"

\* the two profiles of the build: overflow checks and debug assertions on, or off
Builds == {"debug", "release"}

overflow_checks(b) == b = "debug"

debug_assertions(b) == b = "debug"

---------------------------------------------------------------------------
(* CompressedStorage.  self is the record of the fields blocks, compressed *)
(* and buffer; a method that takes &mut self gives back the pair of its    *)
(* result and the fields it leaves.                                        *)

\* CompressedStorage::new
new == [blocks |-> <<>>, compressed |-> <<>>, buffer |-> <<>>]

\* compress_buffer recording the last value of the buffer as the block's base
compress_buffer_base_from_last(self, b) ==
  IF debug_assertions(b) /\ Len(self.buffer) # BLOCK_SIZE
  THEN <<Panic("assertion failed: buffer.len() == BLOCK_SIZE"), self>>
  ELSE IF Len(self.buffer) = 0
  THEN <<Panic("buffer[0] missing"), self>>
  ELSE IF Len(self.buffer) # BLOCK_LEN
  THEN <<Panic("bitpacker: block length"), self>>
  ELSE
    LET initial == self.buffer[1]
        bits == num_bits_sorted(initial, self.buffer)
        block == compress_sorted(initial, self.buffer, bits)
    IN  <<Unit,
          [blocks |-> Append(self.blocks,
                             [bits |-> bits, initial |-> self.buffer[Len(self.buffer)],
                              start |-> Len(self.compressed)]),
           compressed |-> self.compressed \o block,
           buffer |-> <<>>]>>

\* compress_buffer putting the new block in place of the block list
compress_buffer_replacing(self, b) ==
  IF debug_assertions(b) /\ Len(self.buffer) # BLOCK_SIZE
  THEN <<Panic("assertion failed: buffer.len() == BLOCK_SIZE"), self>>
  ELSE IF Len(self.buffer) = 0
  THEN <<Panic("buffer[0] missing"), self>>
  ELSE IF Len(self.buffer) # BLOCK_LEN
  THEN <<Panic("bitpacker: block length"), self>>
  ELSE
    LET initial == self.buffer[1]
        bits == num_bits_sorted(initial, self.buffer)
        block == compress_sorted(initial, self.buffer, bits)
    IN  <<Unit,
          [blocks |-> <<[bits |-> bits, initial |-> initial,
                         start |-> Len(self.compressed)]>>,
           compressed |-> self.compressed \o block,
           buffer |-> <<>>]>>

\* compress_buffer reading the block's start after the bytes were appended
compress_buffer_start_after_write(self, b) ==
  IF debug_assertions(b) /\ Len(self.buffer) # BLOCK_SIZE
  THEN <<Panic("assertion failed: buffer.len() == BLOCK_SIZE"), self>>
  ELSE IF Len(self.buffer) = 0
  THEN <<Panic("buffer[0] missing"), self>>
  ELSE IF Len(self.buffer) # BLOCK_LEN
  THEN <<Panic("bitpacker: block length"), self>>
  ELSE
    LET initial == self.buffer[1]
        bits == num_bits_sorted(initial, self.buffer)
        block == compress_sorted(initial, self.buffer, bits)
        compressed == self.compressed \o block
    IN  <<Unit,
          [blocks |-> Append(self.blocks,
                             [bits |-> bits, initial |-> initial,
                              start |-> Len(compressed)]),
           compressed |-> compressed,
           buffer |-> <<>>]>>

\* CompressedStorage::compress_buffer.  Its lines 69-79 build a local bitpacker
\* and compress a local sequence of 128 multiples of 7; they touch no field of
\* self and their result is dropped.
compress_buffer(self, b) ==
  IF debug_assertions(b) /\ Len(self.buffer) # BLOCK_SIZE
  THEN <<Panic("assertion failed: buffer.len() == BLOCK_SIZE"), self>>
  ELSE IF Len(self.buffer) = 0
  THEN <<Panic("buffer[0] missing"), self>>
  ELSE IF Len(self.buffer) # BLOCK_LEN
  THEN <<Panic("bitpacker: block length"), self>>
  ELSE
    LET initial == self.buffer[1]
        bits == num_bits_sorted(initial, self.buffer)
        block == compress_sorted(initial, self.buffer, bits)
    IN  <<Unit,
          [blocks |-> Append(self.blocks,
                             [bits |-> bits, initial |-> initial,
                              start |-> Len(self.compressed)]),
           compressed |-> self.compressed \o block,
           buffer |-> <<>>]>>

\* decompress_block slicing from the start of the region, not from block.start
decompress_block_from_zero(self, block) ==
  IF block < 0 \/ block >= Len(self.blocks)
  THEN Panic("block exists")
  ELSE
    LET blk == self.blocks[block + 1]
        bytes == (BLOCK_LEN * blk.bits) \div 8
    IN  IF bytes > Len(self.compressed)
        THEN Panic("range end index out of range")
        ELSE <<"Ok",
               decompress_sorted(blk.initial, SubSeq(self.compressed, 1, bytes), blk.bits)>>

\* CompressedStorage::decompress_block: Ok and the 128 values, or a panic
decompress_block(self, block) ==
  IF block < 0 \/ block >= Len(self.blocks)
  THEN Panic("block exists")
  ELSE
    LET blk == self.blocks[block + 1]
        bytes == (BLOCK_LEN * blk.bits) \div 8
    IN  IF blk.start + bytes > Len(self.compressed)
        THEN Panic("range end index out of range")
        ELSE <<"Ok",
               decompress_sorted(blk.initial,
                                 SubSeq(self.compressed, blk.start + 1, blk.start + bytes),
                                 blk.bits)>>

\* add compressing the buffer one value early
add_flushing_one_early(self, value, b) ==
  LET pushed == [self EXCEPT !.buffer = Append(@, value)]
  IN  IF Len(pushed.buffer) >= BLOCK_SIZE - 1
      THEN compress_buffer(pushed, b)
      ELSE <<Unit, pushed>>

\* add testing the buffer's length before the push, not after it
add_testing_before_push(self, value, b) ==
  IF Len(self.buffer) = BLOCK_SIZE
  THEN LET r == compress_buffer(self, b)
       IN  IF IsPanic(r[1]) THEN r
           ELSE <<Unit, [r[2] EXCEPT !.buffer = Append(@, value)]>>
  ELSE <<Unit, [self EXCEPT !.buffer = Append(@, value)]>>

\* CompressedStorage::add
add(self, value, b) ==
  LET pushed == [self EXCEPT !.buffer = Append(@, value)]
  IN  IF Len(pushed.buffer) = BLOCK_SIZE
      THEN compress_buffer(pushed, b)
      ELSE <<Unit, pushed>>

\* the iterations lo..hi of add_batch's loop, in order, from the outcome r
RECURSIVE add_batch_loop(_, _, _, _, _)
add_batch_loop(r, values, lo, hi, b) ==
  IF IsPanic(r[1]) \/ lo > hi THEN r
  ELSE IF lo = hi THEN add(r[2], values[lo], b)
  ELSE LET mid == (lo + hi) \div 2
           first == add_batch_loop(r, values, lo, mid, b)
       IN  add_batch_loop(first, values, mid + 1, hi, b)

\* add_batch extending the buffer with the whole slice and testing for a full
\* buffer once, after it
add_batch_extend_then_test(self, values, b) ==
  LET pushed == [self EXCEPT !.buffer = @ \o values]
  IN  IF Len(pushed.buffer) = BLOCK_SIZE
      THEN compress_buffer(pushed, b)
      ELSE <<Unit, pushed>>

\* CompressedStorage::add_batch
add_batch(self, values, b) == add_batch_loop(<<Unit, self>>, values, 1, Len(values), b)

\* the while loop of find_block: the value of left when it ends
RECURSIVE find_block_loop(_, _, _, _)
find_block_loop(blocks, bound, left, right) ==
  IF left < right
  THEN LET mid == (left + right) \div 2
       IN  IF u32_lt(blocks[mid + 1].initial, bound)
           THEN find_block_loop(blocks, bound, mid + 1, right)
           ELSE find_block_loop(blocks, bound, left, mid)
  ELSE left

\* find_block searching for the blocks whose base is below value, not value + 1
find_block_below_value(self, value, b) ==
  LET left == find_block_loop(self.blocks, value, 0, Len(self.blocks))
  IN  IF left = 0 /\ overflow_checks(b)
      THEN Panic("attempt to subtract with overflow")
      ELSE Some(left - 1)

\* find_block ending its search at the last committed block whatever the value
find_block_latest(self, value, b) ==
  IF Len(self.blocks) = 0 /\ overflow_checks(b)
  THEN Panic("attempt to subtract with overflow")
  ELSE Some(Len(self.blocks) - 1)

\* CompressedStorage::find_block
find_block(self, value, b) ==
  LET sum == u32_add(value, 1)
      entered == 0 < Len(self.blocks)
  IN  IF entered /\ sum[1] > 0 /\ overflow_checks(b)
      THEN Panic("attempt to add with overflow")
      ELSE
        LET left == find_block_loop(self.blocks, sum[2], 0, Len(self.blocks))
        IN  IF left = 0 /\ overflow_checks(b)
            THEN Panic("attempt to subtract with overflow")
            ELSE
              LET block == left - 1
                  next == block + 1
              IN  IF /\ debug_assertions(b)
                     /\ next < Len(self.blocks)
                     /\ ~ u32_lt(value, self.blocks[next + 1].initial)
                  THEN Panic("assertion failed: next.is_none() || next.unwrap().initial > value")
                  ELSE Some(block)

\* find_value returning the offset within the block, without the block's share
find_value_offset_only(self, value, block) ==
  LET decompressed == decompress_block(self, block)
  IN  IF IsPanic(decompressed) THEN decompressed
      ELSE
        LET d == decompressed[2]
            hits == {i \in 1..Len(d) : d[i] = value}
        IN  IF hits = {} THEN None
            ELSE Some((CHOOSE i \in hits : \A j \in hits : i <= j) - 1)

\* find_value counting the offset within the block from 1
find_value_from_one(self, value, block) ==
  LET decompressed == decompress_block(self, block)
  IN  IF IsPanic(decompressed) THEN decompressed
      ELSE
        LET d == decompressed[2]
            hits == {i \in 1..Len(d) : d[i] = value}
        IN  IF hits = {} THEN None
            ELSE Some(block * BLOCK_SIZE + (CHOOSE i \in hits : \A j \in hits : i <= j))

\* CompressedStorage::find_value
find_value(self, value, block) ==
  LET decompressed == decompress_block(self, block)
  IN  IF IsPanic(decompressed) THEN decompressed
      ELSE
        LET d == decompressed[2]
            hits == {i \in 1..Len(d) : d[i] = value}
        IN  IF hits = {} THEN None
            ELSE Some(block * BLOCK_SIZE + (CHOOSE i \in hits : \A j \in hits : i <= j) - 1)

\* CompressedStorage::find
find(self, value, b) ==
  LET found == find_block(self, value, b)
  IN  IF found[1] = "Some" THEN find_value(self, value, found[2]) ELSE found

---------------------------------------------------------------------------
(* The caller.  It owns one store, built by one profile, and feeds it a    *)
(* non-decreasing sequence start, start + step, ... in which every value   *)
(* comes rep times; it looks values up between the writes.  Having looked  *)
(* a value up it looks the same value up again or goes on writing.  After  *)
(* a panic the program has ended and nothing more is called.               *)

\* the most values a run inserts
MaxAdds == 258

\* the most lookups between two writes
MaxReads == 2

Inputs ==
  { [start |-> <<0, 100>>, step |-> 2, rep |-> 1],
    [start |-> <<1, 34466>>, step |-> 7, rep |-> 1],
    [start |-> <<Limb - 1, Limb - BLOCK_SIZE>>, step |-> 1, rep |-> 1],
    [start |-> <<0, 0>>, step |-> 5, rep |-> 3],
    [start |-> <<0, 0>>, step |-> 5, rep |-> BLOCK_SIZE + 2] }

\* the lengths of the slices handed to add_batch
BatchLens == {0, 3, 2 * BLOCK_SIZE}

VARIABLES
  blocks,      \* Vec<StorageBlock>: the metadata of the committed blocks
  compressed,  \* Vec<u8>: the packed bytes of the committed blocks
  buffer,      \* Vec<u32>: the values not yet compressed
  build,       \* the profile the program was built with
  src,         \* the sequence the caller inserts
  inserted,    \* every value handed to add so far, in order
  query,       \* the argument of the lookups since the last write, or NoQuery
  result,      \* what the last call gave back
  reads,       \* the number of lookups since the last write
  flushed      \* the number of blocks the last write committed

vars == <<blocks, compressed, buffer, build, src, inserted, query, result, reads, flushed>>

Self == [blocks |-> blocks, compressed |-> compressed, buffer |-> buffer]

NoQuery == <<>>

\* the value the caller inserts after n others: <<1, _>> when the sequence has ended
input_at(s, n) == u32_add(s.start, s.step * (n \div s.rep))

\* the next len values of the caller's sequence
next_inputs(len) == [i \in 1..len |-> input_at(src, Len(inserted) + i - 1)[2]]

\* the values a caller may look up: 0, the largest u32, and the values at and
\* next to the ends of the blocks and of the inserted sequence
Probes ==
  LET n == Len(inserted)
      at == {1, BLOCK_SIZE, BLOCK_SIZE + 1, 231, 2 * BLOCK_SIZE, n} \cap (1..n)
      after == {1, BLOCK_SIZE, n} \cap (1..n)
  IN  {U32_ZERO, U32_MAX}
        \cup {inserted[k] : k \in at}
        \cup {u32_add(inserted[k], 1)[2] : k \in after}
        \cup {u32_wrapping_sub(inserted[k], <<0, 1>>) : k \in {1} \cap (1..n)}

Panicked == IsPanic(result)

Init ==
  /\ blocks = new.blocks
  /\ compressed = new.compressed
  /\ buffer = new.buffer
  /\ build \in Builds
  /\ src \in Inputs
  /\ inserted = <<>>
  /\ query = NoQuery
  /\ result = Unit
  /\ reads = 0
  /\ flushed = 0

\* a write's effect on the variables, from the outcome r of the method
Written(r, values) ==
  /\ blocks' = r[2].blocks
  /\ compressed' = r[2].compressed
  /\ buffer' = r[2].buffer
  /\ result' = r[1]
  /\ inserted' = inserted \o values
  /\ query' = NoQuery
  /\ reads' = 0
  /\ flushed' = Len(r[2].blocks) - Len(blocks)
  /\ UNCHANGED <<build, src>>

\* storage.add(value)
Add ==
  /\ ~ Panicked
  /\ Len(inserted) < MaxAdds
  /\ input_at(src, Len(inserted))[1] = 0
  /\ LET value == input_at(src, Len(inserted))[2]
     IN  Written(add(Self, value, build), <<value>>)

\* storage.add_batch(values)
AddBatch(len) ==
  /\ ~ Panicked
  /\ Len(inserted) + len <= MaxAdds
  /\ len = 0 \/ input_at(src, Len(inserted) + len - 1)[1] = 0
  /\ LET values == next_inputs(len)
     IN  Written(add_batch(Self, values, build), values)

\* a find that takes the pending values out of the buffer
FindDrainingBuffer(value) ==
  /\ ~ Panicked
  /\ reads < MaxReads
  /\ query \in {NoQuery, value}
  /\ result' = find(Self, value, build)
  /\ query' = value
  /\ reads' = reads + 1
  /\ buffer' = <<>>
  /\ UNCHANGED <<blocks, compressed, build, src, inserted, flushed>>

\* storage.find(value)
Find(value) ==
  /\ ~ Panicked
  /\ reads < MaxReads
  /\ query \in {NoQuery, value}
  /\ result' = find(Self, value, build)
  /\ query' = value
  /\ reads' = reads + 1
  /\ UNCHANGED <<blocks, compressed, buffer, build, src, inserted, flushed>>

Next ==
  \/ Add
  \/ \E len \in BatchLens : AddBatch(len)
  \/ \E value \in Probes : Find(value)

Spec == Init /\ [][Next]_vars

---------------------------------------------------------------------------
(* Properties *)

\* the last call was find(query), and result is what it gave back
Looked == query # NoQuery

\* the inserted sequence is strictly increasing
StrictlyIncreasing ==
  \A i \in 1..(Len(inserted) - 1) : u32_lt(inserted[i], inserted[i + 1])

\* the inserted sequence is 100, 102, 104, ..., of at most 1000 elements
IsEvens ==
  /\ Len(inserted) <= 1000
  /\ \A k \in 1..Len(inserted) : inserted[k] = <<0, 100 + 2 * (k - 1)>>

\* C1: on a store with zero insertions find(v) returns None, for every v
C1_EmptyStoreFindIsNone ==
  (Looked /\ inserted = <<>>) => result = None

\* C2: with a committed block, find(v) for v below the base of block 0 returns None
C2_BelowFirstBaseFindIsNone ==
  (Looked /\ Len(blocks) >= 1 /\ u32_lt(query, blocks[1].initial)) => result = None

\* C3: for every state and query, find_block ends without a panic and without
\* value + 1, left - 1 or block + 1 wrapping: it gives the index of a block
C3_FindBlockArithmeticSafe ==
  Looked =>
    LET r == find_block(Self, query, build)
    IN  /\ ~ IsPanic(r)
        /\ ~ (query = U32_MAX /\ Len(blocks) > 0)
        /\ r[1] = "Some" => r[2] >= 0

\* C4, as stated: after the evens 100, 102, ... find(v) of every inserted v
\* returns Some(k), k the 0-based insertion index of v
C4_EvensAllFound ==
  (Looked /\ IsEvens) =>
    \A k \in 1..Len(inserted) : inserted[k] = query => result = Some(k - 1)

\* C4, amended: after the evens 100, 102, ... find(v) of every inserted v whose
\* 0-based insertion index k is below 128 * (number of committed blocks)
\* returns Some(k)
C4_EvensCommittedFound ==
  (Looked /\ IsEvens) =>
    \A k \in 1..(BLOCK_SIZE * Len(blocks)) : inserted[k] = query => result = Some(k - 1)

\* find(560) = Some(230) after the evens from 100
C4_Witness ==
  Looked /\ IsEvens /\ query = <<0, 560>> /\ result = Some(230)

\* C5: after a strictly increasing sequence, find(v) returns None for every v
\* never inserted that lies between the first and the last inserted value
C5_GapValuesFindIsNone ==
  (/\ Looked
   /\ StrictlyIncreasing
   /\ Len(inserted) >= 1
   /\ u32_lt(inserted[1], query)
   /\ u32_lt(query, inserted[Len(inserted)])
   /\ \A k \in 1..Len(inserted) : inserted[k] # query)
  => result = None

\* C6: for a strictly increasing input, find(v) returns None for every v that
\* is only in the pending buffer, inserted at a position >= 128 * (number of blocks)
C6_PendingFindIsNone ==
  (Looked /\ StrictlyIncreasing) =>
    \A k \in (BLOCK_SIZE * Len(blocks) + 1)..Len(inserted) :
      inserted[k] = query => result = None

\* C7: for a strictly increasing input, the value inserted at position k is not
\* found while fewer than 128 * (floor(k / 128) + 1) values are inserted, and
\* find of it returns Some(k) once that many are
C7_VisibleWhenBlockFills ==
  (Looked /\ StrictlyIncreasing) =>
    \A k \in 1..Len(inserted) :
      inserted[k] = query =>
        IF BLOCK_SIZE * (((k - 1) \div BLOCK_SIZE) + 1) <= Len(inserted)
        THEN result = Some(k - 1)
        ELSE result[1] # "Some"

C9_BlocksRoundTrip ==
  query = NoQuery =>
    \A i \in 0..(Len(blocks) - 1) :
      decompress_block(Self, i) =
        <<"Ok", SubSeq(inserted, BLOCK_SIZE * i + 1, BLOCK_SIZE * (i + 1))>>

\* two blocks of multiples of 7 are committed and the second reads back
C9_Witness ==
  /\ query = NoQuery
  /\ Len(blocks) = 2
  /\ inserted[1] = <<1, 34466>>
  /\ decompress_block(Self, 1)[2][BLOCK_SIZE] = inserted[2 * BLOCK_SIZE]

\* add called for each of values[lo..hi] in order, from the outcome r
RECURSIVE add_each(_, _, _, _, _)
add_each(r, values, lo, hi, b) ==
  IF lo > hi \/ IsPanic(r[1]) THEN r
  ELSE IF hi - lo < 4
  THEN add_each(add(r[2], values[lo], b), values, lo + 1, hi, b)
  ELSE add_each(add_each(r, values, lo, lo + 3, b), values, lo + 4, hi, b)

\* C10: add_batch(values) leaves the blocks, the compressed bytes and the buffer
\* that calling add for each element of values in order leaves
C10_AddBatchIsAddForEach ==
  [][\A len \in BatchLens :
       AddBatch(len) =>
         <<result', blocks', compressed', buffer'>> =
           LET r == add_each(<<Unit, Self>>, next_inputs(len), 1, len, build)
           IN  <<r[1], r[2].blocks, r[2].compressed, r[2].buffer>>]_vars

\* one add_batch committed two blocks and left values pending
C10_Witness ==
  flushed = 2 /\ Len(buffer) > 0

\* the 1-based indices of the committed blocks whose base is at most value
BlocksAtMost(value) ==
  {i \in 1..Len(blocks) : ~ u32_lt(value, blocks[i].initial)}

\* C11: whenever a committed block has base <= value, find_block(value) returns
\* Some(i), i the largest index with blocks[i].base <= value
C11_FindBlockIsLargestAtMost ==
  (Looked /\ BlocksAtMost(query) # {}) =>
    find_block(Self, query, build) =
      Some((CHOOSE i \in BlocksAtMost(query) : \A j \in BlocksAtMost(query) : j <= i) - 1)

\* C12: whenever find(v) returns Some(p), p is block_index * 128 + offset with
\* 0 <= offset < 128, for the block find_block selected, p is below 128 times
\* the number of committed blocks, and the p-th inserted value (0-based) is v
C12_FoundPositionHoldsValue ==
  (Looked /\ result[1] = "Some") =>
    LET p == result[2]
    IN  /\ 0 <= p
        /\ p < BLOCK_SIZE * Len(blocks)
        /\ find_block(Self, query, build) = Some(p \div BLOCK_SIZE)
        /\ inserted[p + 1] = query

\* a value of the second block was found, at an offset other than 0
C12_Witness ==
  /\ Looked
  /\ result[1] = "Some"
  /\ result[2] > BLOCK_SIZE
  /\ reads = 1

\* C13: after n values have been inserted in total the buffer holds exactly the
\* last n mod 128 of them, in insertion order (so 0..127 values whenever an
\* operation has returned), and there are floor(n / 128) committed blocks: the
\* block is compressed inside the add that inserts its 128th value
C13_BufferIsRemainder ==
  LET n == Len(inserted)
  IN  /\ Len(blocks) = n \div BLOCK_SIZE
      /\ Len(buffer) = n % BLOCK_SIZE
      /\ Len(buffer) \in 0..(BLOCK_SIZE - 1)
      /\ buffer = SubSeq(inserted, n - (n % BLOCK_SIZE) + 1, n)

\* an add has just inserted the 128th value of the second block
C13_Witness ==
  /\ Len(inserted) = 2 * BLOCK_SIZE
  /\ flushed = 1
  /\ Len(blocks) = 2
  /\ buffer = <<>>

\* the 1-based insertion positions of the values of block i (1-based)
BlockPositions(i) == ((i - 1) * BLOCK_SIZE + 1)..(i * BLOCK_SIZE)

\* C14 as stated: the inputs are non-decreasing; each block's base is the first
\* value of the block, the bases ascend with the block index, and the base of
\* block i+1 is strictly greater than every value stored in block i
C14_BasesExceedEarlierBlock ==
  (query = NoQuery) =>
    \A i \in 1..Len(blocks) :
      /\ blocks[i].initial = inserted[(i - 1) * BLOCK_SIZE + 1]
      /\ i < Len(blocks) =>
           /\ u32_lt(blocks[i].initial, blocks[i + 1].initial)
           /\ \A k \in BlockPositions(i) : u32_lt(inserted[k], blocks[i + 1].initial)

\* C14: the inputs are non-decreasing; each block's base is the first value of
\* the block, the bases never descend with the block index, and the base of
\* block i+1 is at least every value stored in block i; both comparisons are
\* strict when the inputs are strictly increasing
C14_BasesBoundEarlierBlock ==
  (query = NoQuery) =>
    \A i \in 1..Len(blocks) :
      /\ blocks[i].initial = inserted[(i - 1) * BLOCK_SIZE + 1]
      /\ i < Len(blocks) =>
           /\ ~ u32_lt(blocks[i + 1].initial, blocks[i].initial)
           /\ \A k \in BlockPositions(i) : ~ u32_lt(blocks[i + 1].initial, inserted[k])
           /\ StrictlyIncreasing =>
                /\ u32_lt(blocks[i].initial, blocks[i + 1].initial)
                /\ \A k \in BlockPositions(i) : u32_lt(inserted[k], blocks[i + 1].initial)

\* a run of equal values crosses the boundary of two committed blocks: the
\* second block's base is the last value of the first block
C14_Witness ==
  /\ query = NoQuery
  /\ Len(blocks) = 2
  /\ blocks[2].initial = inserted[BLOCK_SIZE]
  /\ u32_lt(blocks[1].initial, blocks[2].initial)

\* C15: every step keeps base, bits and start of every committed block, keeps
\* every byte already written to the region and removes no block; an add that
\* does not fill the buffer changes nothing but the buffer, which gains the value
C15_AddsOnlyAppend ==
  [][/\ Len(blocks') >= Len(blocks)
     /\ SubSeq(blocks', 1, Len(blocks)) = blocks
     /\ Len(compressed') >= Len(compressed)
     /\ SubSeq(compressed', 1, Len(compressed)) = compressed
     /\ (Len(inserted') = Len(inserted) + 1 /\ Len(buffer) + 1 # BLOCK_SIZE) =>
          /\ blocks' = blocks
          /\ compressed' = compressed
          /\ buffer' = Append(buffer, inserted'[Len(inserted')])]_vars

\* a write has committed the second block behind the first and gone on to
\* leave values pending
C15_Witness ==
  /\ Len(blocks) = 2
  /\ blocks[2].start > 0
  /\ flushed = 1
  /\ Len(buffer) > 0

\* the number of bytes of block i (1-based) in the region
BlockBytes(i) == (BLOCK_LEN * blocks[i].bits) \div 8

\* C16: block 0 starts at offset 0, block i+1 starts where block i ends, at
\* blocks[i].start + 128 * blocks[i].bits / 8, the region is as long as all
\* the blocks together, and every bit width is in 0..32; so each block's byte
\* range lies inside the region and no two ranges overlap
C16_BlocksTileRegion ==
  /\ \A i \in 1..Len(blocks) :
       /\ blocks[i].bits \in 0..32
       /\ blocks[i].start = IF i = 1 THEN 0 ELSE blocks[i - 1].start + BlockBytes(i - 1)
       /\ blocks[i].start + BlockBytes(i) <= Len(compressed)
       /\ \A j \in 1..(i - 1) : blocks[j].start + BlockBytes(j) <= blocks[i].start
  /\ Len(compressed) =
       IF blocks = <<>> THEN 0
       ELSE blocks[Len(blocks)].start + BlockBytes(Len(blocks))

\* two blocks of non-zero width lie one behind the other in the region
C16_Witness ==
  /\ Len(blocks) = 2
  /\ blocks[1].bits > 0
  /\ blocks[2].start = BlockBytes(1)
  /\ Len(compressed) = BlockBytes(1) + BlockBytes(2)
  /\ Len(compressed) > blocks[2].start

\* the panics of compress_buffer on a buffer that is not 128 long: its own
\* assertion, the read of buffer[0], and the bitpacker's check of the length
PartialBufferPanics ==
  { Panic("assertion failed: buffer.len() == BLOCK_SIZE"),
    Panic("buffer[0] missing"),
    Panic("bitpacker: block length") }

\* C17: compress_buffer runs only on a buffer of exactly 128 values: no step
\* ends in its length assertion (or in the bitpacker's), and every block a step
\* commits took exactly 128 of the values pending or inserted by that step
C17_CompressOnlyFullBuffer ==
  [][/\ result' \notin PartialBufferPanics
     /\ Len(buffer) + (Len(inserted') - Len(inserted)) =
          BLOCK_SIZE * (Len(blocks') - Len(blocks)) + Len(buffer')
     /\ Len(buffer') < BLOCK_SIZE]_vars

\* a build with debug assertions has compressed a buffer and returned
C17_Witness ==
  /\ build = "debug"
  /\ flushed = 1
  /\ result = Unit
  /\ Len(blocks) = 1
  /\ buffer = <<>>

\* a step of add or add_batch taken from a state where find(query) had
\* returned Some
WriteAfterFound == Looked /\ result[1] = "Some" /\ query' = NoQuery

\* the 1-based indices of the blocks the step commits whose base is value
CommittedWithBase(value) ==
  {i \in (Len(blocks) + 1)..Len(blocks') : blocks'[i].initial = value}

\* C18 as stated: the inputs are non-decreasing, duplicates among them; once
\* find(v) has returned Some(p), find(v) returns the same Some(p) after any
\* further add or add_batch
C18_FoundStaysPut ==
  [][WriteAfterFound => find(Self', query, build) = result]_vars

\* C18: the inputs are non-decreasing, duplicates among them; once find(v) has
\* returned Some(p), find(v) after a further add or add_batch returns the same
\* Some(p), unless the step committed a block whose base is v: then it returns
\* Some(128 * i) > p, i the index of the last such block, and the value
\* inserted at that position is v
C18_FoundStaysPutOrMovesToLaterBase ==
  [][WriteAfterFound =>
       LET later == find(Self', query, build)
           moved == CommittedWithBase(query)
       IN  IF moved = {} THEN later = result
           ELSE LET i == CHOOSE i \in moved : \A j \in moved : j <= i
                IN  /\ later = Some(BLOCK_SIZE * (i - 1))
                    /\ later[2] > result[2]
                    /\ inserted'[later[2] + 1] = query]_vars

\* a value was found in the first block while a second block is committed and
\* values are pending
C18_Witness ==
  /\ Looked
  /\ result[1] = "Some"
  /\ result[2] < BLOCK_SIZE
  /\ Len(blocks) = 2
  /\ Len(buffer) > 0

\* C19: the inputs are non-decreasing, runs of equal values among them, some
\* across a block boundary; find(v) returns Some for every v < 4294967295 that
\* is stored in a committed block, also when the search selects a later block
\* whose base is v
C19_CommittedValueIsFound ==
  (/\ Looked
   /\ query # U32_MAX
   /\ \E k \in 1..(BLOCK_SIZE * Len(blocks)) : inserted[k] = query) =>
    result[1] = "Some"

\* the value looked for ends the first block and is the base of the second:
\* the search selected the second block and found the value at its start
C19_Witness ==
  /\ Looked
  /\ Len(blocks) = 2
  /\ inserted[BLOCK_SIZE] = query
  /\ blocks[2].initial = query
  /\ result = Some(BLOCK_SIZE)

====
